---- MODULE Spec2Model ----
(***************************************************************************)
(* Paper-trading simulation engine (backend/paper_trading.py):             *)
(* PaperTrader.__init__ / on_signal / run_strategy, the JSON state store   *)
(* (load_portfolio_state, save_portfolio_state, create_initial_state_file) *)
(* and the ledger writes (log_trade, log_snapshot).                         *)
(*                                                                         *)
(* Amounts (cash, position, price, equity) are Python floats in the code;  *)
(* here they are exact rationals <<n, d>> in lowest terms with d > 0, so   *)
(* that cash / price and shares * price are computed, not assumed.         *)
(***************************************************************************)
EXTENDS Integers, Sequences, FiniteSets, TLC

\* ------------------------------------------------------------------ bounds
MaxBars == 2
MaxFaults == 1
MaxRestarts == 1
MaxRuns == 2

\* ------------------------------------------------------- program constants
InitialCash == 10000

\* close prices fed to on_signal (an invalid one, 0, included) and signals
Prices == {0, 2, 3}
Signals == {1, -1, 0}

\* ------------------------------------------------------ float arithmetic
Abs(x) == IF x < 0 THEN -x ELSE x

RECURSIVE Gcd(_, _)
Gcd(a, b) == IF b = 0 THEN a ELSE Gcd(b, a % b)

\* the rational n/d (d # 0) in lowest terms, sign carried by the numerator
Rat(n, d) ==
    LET g == Gcd(Abs(n), Abs(d))
        s == IF d < 0 THEN -1 ELSE 1
    IN  IF n = 0 THEN <<0, 1>> ELSE <<(s * n) \div g, (s * d) \div g>>

Float(k) == <<k, 1>>
Zero == <<0, 1>>
RMul(a, b) == Rat(a[1] * b[1], a[2] * b[2])
RDiv(a, b) == Rat(a[1] * b[2], a[2] * b[1])
RAdd(a, b) == Rat(a[1] * b[2] + b[1] * a[2], a[2] * b[2])
RGtZero(a) == a[1] > 0
RIsZero(a) == a[1] = 0

\* ------------------------------------------------------------- variables
VARIABLES
    pc,          \* position of the driver: none, init, ready, on_signal, tail, done, crashed, recovered
    cash,        \* PaperTrader.cash
    position,    \* PaperTrader.position
    trades,      \* PaperTrader.trades
    bars,        \* the (price, signal) rows of signals_df fed so far (first run chooses them)
    i,           \* number of rows of the current run completely processed
    curve,       \* equity computed by on_signal for each row of the current run
    start,       \* <<cash, position>> the current run started from
    runs,        \* result (trades, curve) of every finished run_strategy call
    restarts,    \* number of times a new PaperTrader took over between two rows
    halted,      \* the run was cut by a crash; the next PaperTrader only resumes
    target,      \* content of the state file of the key
    targetSynced,\* the content of the state file has reached stable storage
    tmp,         \* content of the temp file of the current / last write call (Absent: none)
    tmpSynced,   \* os.fsync has been done on the temp file
    wpc,         \* step of the write call in progress: idle, mkstemp, write, flush, fsync, replace
    wpayload,    \* file content the write call in progress is writing
    wold,        \* content of the state file when the write call started
    ret,         \* return value of the last write call: "none", "True" or "False"
    removeErr,   \* os.remove raised in the cleanup of the last write call
    dbTrades,    \* rows committed to the trades table
    dbSnapshots, \* rows committed to the equity_snapshots table
    faults,      \* number of I/O failures injected so far
    observed,    \* kind of content last read by a concurrent load_portfolio_state
    drv,         \* the PaperTrader of each /api/run_strategy request being served
    store,       \* content of every state file of state_dir, by file name
    closes,      \* the Close column handed to the strategy functions
    signals      \* the signal column each strategy function returned for closes

vars == <<pc, cash, position, trades, bars, i, curve, start, runs, restarts, halted,
          target, targetSynced, tmp, tmpSynced, wpc, wpayload, wold, ret,
          removeErr, dbTrades, dbSnapshots, faults, observed,
          drv, store, closes, signals>>

coreVars == <<pc, cash, position, trades, bars, i, curve, start, runs, restarts, halted,
              target, targetSynced, tmp, tmpSynced, wpc, wpayload, wold, ret,
              removeErr, dbTrades, dbSnapshots, faults, observed>>
auxVars == <<drv, store, closes, signals>>

memVars == <<cash, position, trades>>
runVars == <<bars, i, curve, start, runs, restarts, halted>>
fileVars == <<target, targetSynced, tmp, tmpSynced>>
callVars == <<wpc, wpayload, wold, ret, removeErr>>
dbVars == <<dbTrades, dbSnapshots>>

\* ---------------------------------------------------------- file contents
Absent == [kind |-> "absent"]
Empty == [kind |-> "empty"]
Partial == [kind |-> "partial"]
Json(data) == [kind |-> "json", data |-> data]
None == <<>>

\* -------------------------------------------------- keys and state files
\* Strings are sequences of characters. The strategy ids run_strategy knows,
\* and one it does not know.
SmaCrossover == <<"s", "m", "a", "_", "c", "r", "o", "s", "s", "o", "v", "e", "r">>
Rsi == <<"r", "s", "i">>
Macd == <<"m", "a", "c", "d">>
Strategies == {SmaCrossover, Rsi, Macd}
KnownStrategies == {SmaCrossover, Rsi}

\* The symbols a request may name: every string of at most MaxSymbolLen of
\* these characters.
MaxSymbolLen == 2
Chars == {"A", "/", "_"}
Symbols == UNION {[1..n -> Chars] : n \in 1..MaxSymbolLen}
Keys == Symbols \X Strategies

\* str.replace(old, new) for one-character old and new.
Replace(s, old, new) == [k \in 1..Len(s) |-> IF s[k] = old THEN new ELSE s[k]]

\* _state_filename: the file name of a key inside state_dir.
state_filename(symbol, strategy) ==
    LET safe_symbol == Replace(Replace(symbol, "/", "_"), " ", "_")
        safe_strategy == Replace(Replace(strategy, "/", "_"), " ", "_")
    IN  safe_symbol \o <<"_", "_">> \o safe_strategy \o <<".", "j", "s", "o", "n">>

\* The requests served at the same time, and a request not yet received.
Drivers == {1, 2}
IdleDriver ==
    [pc |-> "idle", key |-> <<<<>>, <<>>>>, cash |-> Zero, position |-> Zero,
     last_price |-> None, n |-> 0, logged |-> 0, before |-> Absent,
     seen |-> Absent, clobbered |-> FALSE]

\* --------------------------------------------------- the transition rule
\* One trades-list entry of on_signal (date is the row number of the bar).
TradeEntry(type, date, price, shares) ==
    [type |-> type, date |-> date, price |-> price, shares |-> shares]

\* One row of the trades table as log_trade builds it: cash_after and
\* position_after are the trader's fields at the moment log_trade is called.
TradeRow(type, date, price, shares, c, p) ==
    [trade_type |-> type, trade_time |-> date, price |-> price, shares |-> shares,
     cash_after |-> c, position_after |-> p]

\* Variant: the sell branch never reaches self.position = 0.0.
Transition_SellKeepsPosition(c, p, price, signal, date) ==
    IF signal = 1 /\ RIsZero(p)
    THEN LET shares == IF RGtZero(price) THEN RDiv(c, price) ELSE Zero
         IN  [cash |-> Zero, position |-> shares,
              trades |-> <<TradeEntry("buy", date, price, shares)>>,
              rows |-> <<TradeRow("buy", date, price, shares, Zero, shares)>>]
    ELSE IF signal = -1 /\ RGtZero(p)
    THEN LET shares == p
             proceeds == RMul(shares, price)
         IN  [cash |-> proceeds, position |-> shares,
              trades |-> <<TradeEntry("sell", date, price, shares)>>,
              rows |-> <<TradeRow("sell", date, price, shares, proceeds, shares)>>]
    ELSE [cash |-> c, position |-> p, trades |-> <<>>, rows |-> <<>>]

\* Variant: the buy branch buys whole shares only (cash // price).
Transition_WholeShares(c, p, price, signal, date) ==
    IF signal = 1 /\ RIsZero(p)
    THEN LET shares == IF RGtZero(price)
                       THEN Float((c[1] * price[2]) \div (c[2] * price[1]))
                       ELSE Zero
         IN  [cash |-> Zero, position |-> shares,
              trades |-> <<TradeEntry("buy", date, price, shares)>>,
              rows |-> <<TradeRow("buy", date, price, shares, Zero, shares)>>]
    ELSE IF signal = -1 /\ RGtZero(p)
    THEN LET shares == p
             proceeds == RMul(shares, price)
         IN  [cash |-> proceeds, position |-> Zero,
              trades |-> <<TradeEntry("sell", date, price, shares)>>,
              rows |-> <<TradeRow("sell", date, price, shares, proceeds, shares)>>]
    ELSE [cash |-> c, position |-> p, trades |-> <<>>, rows |-> <<>>]

\* Variant: the buy branch does not ask for position == 0.
Transition_BuyWhileLong(c, p, price, signal, date) ==
    IF signal = 1
    THEN LET shares == IF RGtZero(price) THEN RDiv(c, price) ELSE Zero
         IN  [cash |-> Zero, position |-> shares,
              trades |-> <<TradeEntry("buy", date, price, shares)>>,
              rows |-> <<TradeRow("buy", date, price, shares, Zero, shares)>>]
    ELSE IF signal = -1 /\ RGtZero(p)
    THEN LET shares == p
             proceeds == RMul(shares, price)
         IN  [cash |-> proceeds, position |-> Zero,
              trades |-> <<TradeEntry("sell", date, price, shares)>>,
              rows |-> <<TradeRow("sell", date, price, shares, proceeds, shares)>>]
    ELSE [cash |-> c, position |-> p, trades |-> <<>>, rows |-> <<>>]

\* on_signal's branch on (signal, position): the new cash and position, the
\* entries appended to self.trades and the rows handed to log_trade.
\* price <= 0 on a buy gives shares = 0.0; a sell calls log_trade after
\* self.cash is set and before self.position is cleared.
Transition(c, p, price, signal, date) ==
    IF signal = 1 /\ RIsZero(p)
    THEN LET shares == IF RGtZero(price) THEN RDiv(c, price) ELSE Zero
         IN  [cash |-> Zero, position |-> shares,
              trades |-> <<TradeEntry("buy", date, price, shares)>>,
              rows |-> <<TradeRow("buy", date, price, shares, Zero, shares)>>]
    ELSE IF signal = -1 /\ RGtZero(p)
    THEN LET shares == p
             proceeds == RMul(shares, price)
         IN  [cash |-> proceeds, position |-> Zero,
              trades |-> <<TradeEntry("sell", date, price, shares)>>,
              rows |-> <<TradeRow("sell", date, price, shares, proceeds, shares)>>]
    ELSE [cash |-> c, position |-> p, trades |-> <<>>, rows |-> <<>>]

\* equity = float(self.cash + self.position * price)
Equity(c, p, price) == RAdd(c, RMul(p, price))

\* One row of the equity_snapshots table as log_snapshot builds it.
SnapshotRow(date, price, c, p) ==
    [snapshot_time |-> date, cash |-> c, position_shares |-> p,
     last_price |-> price, equity |-> Equity(c, p, price)]

\* The JSON object save_portfolio_state serialises (updated_at left out).
Payload(c, p, last_price, equity) ==
    Json([symbol |-> "AAPL", strategy |-> "sma_crossover", cash |-> c,
          position |-> p, last_price |-> last_price, equity |-> equity])

\* The JSON object create_initial_state_file serialises.
InitialPayload == Payload(Float(InitialCash), Zero, None, Float(InitialCash))

\* load_portfolio_state: <<the parsed dict>>, or <<>> for the None it returns
\* when the file is missing or json.load raises on it.
load_portfolio_state(file) == IF file.kind = "json" THEN <<file.data>> ELSE <<>>

\* ------------------------------------------------------------------ Init
Init ==
    /\ pc = "none"
    /\ cash = Zero
    /\ position = Zero
    /\ trades = <<>>
    /\ bars = <<>>
    /\ i = 0
    /\ curve = <<>>
    /\ start = <<Zero, Zero>>
    /\ runs = <<>>
    /\ restarts = 0
    /\ halted = FALSE
    /\ target = Absent
    /\ targetSynced = TRUE
    /\ tmp = Absent
    /\ tmpSynced = FALSE
    /\ wpc = "idle"
    /\ wpayload = Absent
    /\ wold = Absent
    /\ ret = "none"
    /\ removeErr = FALSE
    /\ dbTrades = <<>>
    /\ dbSnapshots = <<>>
    /\ faults = 0
    /\ observed = "absent"
    /\ drv = [d \in Drivers |-> IdleDriver]
    /\ store = [f \in {} |-> Absent]
    /\ closes = <<>>
    /\ signals = [sma |-> <<>>, rsi |-> <<>>]

\* ------------------------------------------------- the atomic file write
\* Entry of save_portfolio_state / the write part of create_initial_state_file:
\* the payload is built and the try block is about to call mkstemp.
BeginWrite(payload) ==
    /\ wpc' = "mkstemp"
    /\ wpayload' = payload
    /\ wold' = target
    /\ ret' = "none"
    /\ removeErr' = FALSE

\* Where the caller goes on when the write call returns.
AfterWrite ==
    IF pc = "init" THEN /\ pc' = (IF halted THEN "recovered" ELSE "ready")
                        /\ i' = i
    ELSE IF pc = "on_signal" THEN /\ pc' = "tail"
                                  /\ i' = i
    ELSE /\ pc' = "ready"
         /\ i' = i + 1

Return(result) ==
    /\ wpc' = "idle"
    /\ ret' = result
    /\ AfterWrite
    /\ UNCHANGED <<wpayload, wold>>

\* tempfile.mkstemp(prefix=path.name, dir=path.parent) creates an empty file.
WMkstemp ==
    /\ wpc = "mkstemp"
    /\ wpc' = "write"
    /\ tmp' = Empty
    /\ tmpSynced' = FALSE
    /\ UNCHANGED <<pc, i, wpayload, wold, ret, removeErr, target, targetSynced>>
    /\ UNCHANGED <<memVars, bars, curve, start, runs, restarts, halted, dbVars,
                   faults, observed, auxVars>>

\* mkstemp raises: tmpname is still None, so this call has no temp file and
\* nothing to remove; return False.
WMkstempFail ==
    /\ wpc = "mkstemp"
    /\ faults < MaxFaults
    /\ faults' = faults + 1
    /\ tmp' = Absent
    /\ tmpSynced' = FALSE
    /\ Return("False")
    /\ UNCHANGED <<removeErr, target, targetSynced>>
    /\ UNCHANGED <<memVars, bars, curve, start, runs, restarts, halted, dbVars, observed, auxVars>>

\* Variant: the text is written into the state file itself (open(path, "w")).
WWriteChunk_InPlace ==
    /\ wpc = "write"
    /\ wpc' = "flush"
    /\ tmp' = Partial
    /\ target' = Partial
    /\ UNCHANGED <<pc, i, wpayload, wold, ret, removeErr, targetSynced, tmpSynced>>
    /\ UNCHANGED <<memVars, bars, curve, start, runs, restarts, halted, dbVars,
                   faults, observed, auxVars>>

\* json.dump: the first part of the text reaches the temp file.
WWriteChunk ==
    /\ wpc = "write"
    /\ wpc' = "flush"
    /\ tmp' = Partial
    /\ UNCHANGED <<pc, i, wpayload, wold, ret, removeErr, target, targetSynced,
                   tmpSynced>>
    /\ UNCHANGED <<memVars, bars, curve, start, runs, restarts, halted, dbVars,
                   faults, observed, auxVars>>

\* json.dump completes and tmpf.flush() hands the whole text to the OS.
WFlush ==
    /\ wpc = "flush"
    /\ wpc' = "fsync"
    /\ tmp' = wpayload
    /\ UNCHANGED <<pc, i, wpayload, wold, ret, removeErr, target, targetSynced,
                   tmpSynced>>
    /\ UNCHANGED <<memVars, bars, curve, start, runs, restarts, halted, dbVars,
                   faults, observed, auxVars>>

\* os.fsync(tmpf.fileno()) forces the temp file to stable storage.
WFsync ==
    /\ wpc = "fsync"
    /\ wpc' = "replace"
    /\ tmpSynced' = TRUE
    /\ UNCHANGED <<pc, i, wpayload, wold, ret, removeErr, target, targetSynced,
                   tmp>>
    /\ UNCHANGED <<memVars, bars, curve, start, runs, restarts, halted, dbVars,
                   faults, observed, auxVars>>

\* os.replace(tmpname, path) renames the temp file onto the state file; return True.
WReplace ==
    /\ wpc = "replace"
    /\ target' = tmp
    /\ targetSynced' = tmpSynced
    /\ tmp' = Absent
    /\ tmpSynced' = FALSE
    /\ Return("True")
    /\ UNCHANGED removeErr
    /\ UNCHANGED <<memVars, bars, curve, start, runs, restarts, halted, dbVars,
                   faults, observed, auxVars>>

\* Variant: the except block returns False without removing the temp file.
WFail_KeepTmp ==
    /\ wpc \in {"write", "flush", "fsync", "replace"}
    /\ faults < MaxFaults
    /\ faults' = faults + 1
    /\ removeErr' = FALSE
    /\ Return("False")
    /\ UNCHANGED <<target, targetSynced, tmp, tmpSynced>>
    /\ UNCHANGED <<memVars, bars, curve, start, runs, restarts, halted, dbVars, observed, auxVars>>

\* Variant: a failed save puts the trader back on the state the file holds.
WFail_Rollback ==
    /\ wpc \in {"write", "flush", "fsync", "replace"}
    /\ faults < MaxFaults
    /\ faults' = faults + 1
    /\ \E removed \in BOOLEAN :
         /\ tmp' = IF removed THEN Absent ELSE tmp
         /\ tmpSynced' = IF removed THEN FALSE ELSE tmpSynced
         /\ removeErr' = ~removed
    /\ Return("False")
    /\ cash' = IF target.kind = "json" THEN target.data.cash ELSE cash
    /\ position' = IF target.kind = "json" THEN target.data.position ELSE position
    /\ UNCHANGED <<target, targetSynced, trades>>
    /\ UNCHANGED <<bars, curve, start, runs, restarts, halted, dbVars, observed, auxVars>>

\* A step after mkstemp raises (write, flush, fsync or replace): the except
\* block removes the temp file if it exists, swallowing an error of os.remove,
\* and returns False.
WFail ==
    /\ wpc \in {"write", "flush", "fsync", "replace"}
    /\ faults < MaxFaults
    /\ faults' = faults + 1
    /\ \E removed \in BOOLEAN :
         /\ tmp' = IF removed THEN Absent ELSE tmp
         /\ tmpSynced' = IF removed THEN FALSE ELSE tmpSynced
         /\ removeErr' = ~removed
    /\ Return("False")
    /\ UNCHANGED <<target, targetSynced>>
    /\ UNCHANGED <<memVars, bars, curve, start, runs, restarts, halted, dbVars, observed, auxVars>>

\* ------------------------------------------------------------ the driver
\* A field the parsed dict does not have, and a field whose value float()
\* raises on (null, a string that is no number); neither is a rational.
Missing == <<0, 0>>
Unparsable == <<1, 0>>

\* The resume block of __init__: self.cash = float(state.get("cash",
\* self.cash)), then the same for position, inside one try whose except
\* only prints. A missing key gives the default; when float() raises, the
\* fields assigned before it keep their new value.
ResumedFields(data) ==
    IF data.cash = Unparsable THEN <<Float(InitialCash), Zero>>
    ELSE LET c == IF data.cash = Missing THEN Float(InitialCash) ELSE data.cash
         IN  IF data.position = Unparsable THEN <<c, Zero>>
             ELSE <<c, IF data.position = Missing THEN Zero ELSE data.position>>

\* Variant: the constructor does not resume (resume_from_json=False).
PaperTraderInit_NoResume(next) ==
    /\ trades' = <<>>
    /\ cash' = Float(InitialCash)
    /\ position' = Zero
    /\ IF target.kind # "absent"
       THEN /\ pc' = next
            /\ wold' = target
            /\ ret' = "True"
            /\ removeErr' = FALSE
            /\ UNCHANGED <<wpc, wpayload>>
       ELSE /\ pc' = "init"
            /\ BeginWrite(InitialPayload)

\* Variant: load_portfolio_state has no except branch, so the error json.load
\* raises on a file it cannot parse leaves the constructor.
PaperTraderInit_LoadRaises(next) ==
    LET state == load_portfolio_state(target)
    IN  /\ trades' = <<>>
        /\ cash' = IF state # <<>> THEN ResumedFields(state[1])[1] ELSE Float(InitialCash)
        /\ position' = IF state # <<>> THEN ResumedFields(state[1])[2] ELSE Zero
        /\ IF state # <<>>
           THEN /\ pc' = next
                /\ UNCHANGED callVars
           ELSE IF target.kind # "absent"
           THEN /\ pc' = "raised"
                /\ UNCHANGED callVars
           ELSE /\ pc' = "init"
                /\ BeginWrite(InitialPayload)

\* PaperTrader.__init__ with resume_from_json=True: fields set to their
\* defaults, then overwritten from the loaded state if there is one; if not,
\* create_initial_state_file, which returns True at once when the path exists.
PaperTraderInit(next) ==
    LET state == load_portfolio_state(target)
    IN  /\ trades' = <<>>
        /\ cash' = IF state # <<>> THEN ResumedFields(state[1])[1] ELSE Float(InitialCash)
        /\ position' = IF state # <<>> THEN ResumedFields(state[1])[2] ELSE Zero
        /\ IF state # <<>>
           THEN /\ pc' = next
                /\ UNCHANGED callVars
           ELSE IF target.kind # "absent"
           THEN /\ pc' = next
                /\ wold' = target
                /\ ret' = "True"
                /\ removeErr' = FALSE
                /\ UNCHANGED <<wpc, wpayload>>
           ELSE /\ pc' = "init"
                /\ BeginWrite(InitialPayload)

\* /api/run_strategy: a new PaperTrader for the key, then run_strategy over
\* the rows.
StartRun ==
    /\ pc = "none"
    /\ PaperTraderInit("ready")
    /\ i' = 0
    /\ curve' = <<>>
    /\ start' = <<cash', position'>>
    /\ UNCHANGED <<bars, runs, restarts, halted, fileVars, dbVars, faults, observed, auxVars>>

\* /api/run_strategy is requested again for the same key and the same data.
Rerun ==
    /\ pc = "done"
    /\ Len(runs) < MaxRuns
    /\ PaperTraderInit("ready")
    /\ i' = 0
    /\ curve' = <<>>
    /\ start' = <<cash', position'>>
    /\ UNCHANGED <<bars, runs, restarts, halted, fileVars, dbVars, faults, observed, auxVars>>

\* The process is restarted between two rows: a new PaperTrader for the same
\* key goes on with the remaining rows.
Restart ==
    /\ pc = "ready"
    /\ restarts < MaxRestarts
    /\ restarts' = restarts + 1
    /\ PaperTraderInit("ready")
    /\ UNCHANGED <<bars, i, curve, start, runs, halted, fileVars, dbVars, faults, observed, auxVars>>

\* After a crash a new PaperTrader is constructed for the key.
Recover ==
    /\ pc = "crashed"
    /\ PaperTraderInit("recovered")
    /\ UNCHANGED <<runVars, fileVars, dbVars, faults, observed, auxVars>>

\* Variant: a failed commit in log_trade / log_snapshot undoes the in-memory
\* transition of the row (the trader keeps the cash and position it had).
OnSignalStep_LedgerRollsBack(price, signal, tradeOk, snapOk) ==
    LET date == i + 1
        t == Transition(cash, position, Float(price), signal, date)
        kept == tradeOk /\ snapOk
        c == IF kept THEN t.cash ELSE cash
        p == IF kept THEN t.position ELSE position
        equity == Equity(c, p, Float(price))
        nfail == (IF tradeOk THEN 0 ELSE 1) + (IF snapOk THEN 0 ELSE 1)
    IN  /\ tradeOk \/ t.rows # <<>>
        /\ faults + nfail <= MaxFaults
        /\ faults' = faults + nfail
        /\ cash' = c
        /\ position' = p
        /\ trades' = IF kept THEN trades \o t.trades ELSE trades
        /\ dbTrades' = IF tradeOk THEN dbTrades \o t.rows ELSE dbTrades
        /\ dbSnapshots' = IF snapOk
                          THEN Append(dbSnapshots,
                                      SnapshotRow(date, Float(price), t.cash, t.position))
                          ELSE dbSnapshots
        /\ curve' = Append(curve, equity)
        /\ pc' = "on_signal"
        /\ BeginWrite(Payload(c, p, Float(price), equity))

\* Variant: log_trade and log_snapshot do not roll the session back after a
\* failed commit, so once a record is missing every later commit of the
\* trader fails as well.
OnSignalStep_NoRollback(price, signal, tradeOk, snapOk) ==
    LET date == i + 1
        t == Transition(cash, position, Float(price), signal, date)
        equity == Equity(t.cash, t.position, Float(price))
        nfail == (IF tradeOk THEN 0 ELSE 1) + (IF snapOk THEN 0 ELSE 1)
        stuck == Len(dbTrades) < Len(trades) \/ Len(dbSnapshots) < 2 * i
    IN  /\ tradeOk \/ t.rows # <<>>
        /\ faults + nfail <= MaxFaults
        /\ faults' = faults + nfail
        /\ cash' = t.cash
        /\ position' = t.position
        /\ trades' = trades \o t.trades
        /\ dbTrades' = IF tradeOk /\ ~stuck THEN dbTrades \o t.rows ELSE dbTrades
        /\ dbSnapshots' = IF snapOk /\ ~stuck /\ (tradeOk \/ t.rows = <<>>)
                          THEN Append(dbSnapshots,
                                      SnapshotRow(date, Float(price), t.cash, t.position))
                          ELSE dbSnapshots
        /\ curve' = Append(curve, equity)
        /\ pc' = "on_signal"
        /\ BeginWrite(Payload(t.cash, t.position, Float(price), equity))

\* Variant: the state saved by on_signal for a sell is taken where log_trade
\* is called, with the cash already credited and the position still held.
OnSignalStep_SaveBeforeClear(price, signal, tradeOk, snapOk) ==
    LET date == i + 1
        t == Transition(cash, position, Float(price), signal, date)
        equity == Equity(t.cash, t.position, Float(price))
        nfail == (IF tradeOk THEN 0 ELSE 1) + (IF snapOk THEN 0 ELSE 1)
        held == IF t.trades # <<>> /\ t.trades[1].type = "sell" THEN position ELSE t.position
    IN  /\ tradeOk \/ t.rows # <<>>
        /\ faults + nfail <= MaxFaults
        /\ faults' = faults + nfail
        /\ cash' = t.cash
        /\ position' = t.position
        /\ trades' = trades \o t.trades
        /\ dbTrades' = IF tradeOk THEN dbTrades \o t.rows ELSE dbTrades
        /\ dbSnapshots' = IF snapOk
                          THEN Append(dbSnapshots,
                                      SnapshotRow(date, Float(price), t.cash, t.position))
                          ELSE dbSnapshots
        /\ curve' = Append(curve, equity)
        /\ pc' = "on_signal"
        /\ BeginWrite(Payload(t.cash, held, Float(price), equity))

\* on_signal up to the call of save_portfolio_state: the transition, the
\* trades entry, log_trade, equity, log_snapshot. tradeOk / snapOk say whether
\* the commit of log_trade / log_snapshot succeeds; a failure is caught there
\* (rollback) and the row is not recorded.
OnSignalStep(price, signal, tradeOk, snapOk) ==
    LET date == i + 1
        t == Transition(cash, position, Float(price), signal, date)
        equity == Equity(t.cash, t.position, Float(price))
        nfail == (IF tradeOk THEN 0 ELSE 1) + (IF snapOk THEN 0 ELSE 1)
    IN  /\ tradeOk \/ t.rows # <<>>
        /\ faults + nfail <= MaxFaults
        /\ faults' = faults + nfail
        /\ cash' = t.cash
        /\ position' = t.position
        /\ trades' = trades \o t.trades
        /\ dbTrades' = IF tradeOk THEN dbTrades \o t.rows ELSE dbTrades
        /\ dbSnapshots' = IF snapOk
                          THEN Append(dbSnapshots,
                                      SnapshotRow(date, Float(price), t.cash, t.position))
                          ELSE dbSnapshots
        /\ curve' = Append(curve, equity)
        /\ pc' = "on_signal"
        /\ BeginWrite(Payload(t.cash, t.position, Float(price), equity))

\* One iteration of run_strategy's loop enters on_signal with the next row.
OnSignal(outcomes) ==
    /\ pc = "ready"
    /\ \E tradeOk, snapOk \in outcomes :
         IF i < Len(bars)
         THEN /\ OnSignalStep(bars[i + 1][1], bars[i + 1][2], tradeOk, snapOk)
              /\ bars' = bars
         ELSE /\ runs = <<>>
              /\ i < MaxBars
              /\ \E price \in Prices, signal \in Signals :
                   /\ OnSignalStep(price, signal, tradeOk, snapOk)
                   /\ bars' = Append(bars, <<price, signal>>)
    /\ UNCHANGED <<i, start, runs, restarts, halted, fileVars, observed, auxVars>>

\* run_strategy after on_signal returned: a second log_snapshot for the row
\* and a second save_portfolio_state with the same state.
LoopTail(outcomes) ==
    /\ pc = "tail"
    /\ wpc = "idle"
    /\ LET price == Float(bars[i + 1][1])
           equity == Equity(cash, position, price)
       IN  /\ \E snapOk \in outcomes :
                /\ snapOk \/ faults < MaxFaults
                /\ faults' = IF snapOk THEN faults ELSE faults + 1
                /\ dbSnapshots' = IF snapOk
                                  THEN Append(dbSnapshots,
                                              SnapshotRow(i + 1, price, cash, position))
                                  ELSE dbSnapshots
           /\ BeginWrite(Payload(cash, position, price, equity))
    /\ UNCHANGED <<pc, memVars, runVars, fileVars, dbTrades, observed, auxVars>>

\* (cash, position) after one PaperTrader has taken the first k rows through
\* on_signal, starting from st.
RECURSIVE RunWhole(_, _, _)
RunWhole(st, rows, k) ==
    IF k = 0 THEN st
    ELSE LET prev == RunWhole(st, rows, k - 1)
             t == Transition(prev[1], prev[2], Float(rows[k][1]), rows[k][2], k)
         IN  <<t.cash, t.position>>

\* run_strategy returns (portfolio, self.trades) once every row is processed.
Finish ==
    /\ pc = "ready"
    /\ i >= 1
    /\ i = Len(bars)
    /\ pc' = "done"
    /\ runs' = Append(runs, [trades |-> trades, curve |-> curve])
    /\ UNCHANGED <<memVars, bars, i, curve, start, restarts, halted, fileVars,
                   callVars, dbVars, faults, observed, auxVars>>

\* The machine goes down while the driver is inside a call: the process and
\* its memory are gone, the temp file of a write in progress stays behind, and
\* file content that was not forced to stable storage may be lost.
Crash ==
    /\ pc \in {"init", "on_signal", "tail"}
    /\ ~halted
    /\ pc' = "crashed"
    /\ halted' = TRUE
    /\ cash' = Zero
    /\ position' = Zero
    /\ trades' = <<>>
    /\ wpc' = "idle"
    /\ ret' = "none"
    /\ target' \in (IF targetSynced THEN {target} ELSE {target, Partial})
    /\ targetSynced' = TRUE
    /\ UNCHANGED <<bars, i, curve, start, runs, restarts, tmp, tmpSynced,
                   wpayload, wold, removeErr, dbVars, faults, observed, auxVars>>

\* A concurrent load_portfolio_state of the key reads the state file; what
\* kind of content it found is kept.
Load ==
    /\ observed # target.kind
    /\ observed' = target.kind
    /\ UNCHANGED <<pc, memVars, runVars, fileVars, callVars, dbVars, faults, auxVars>>

\* Something other than the driver damages the state file while no
\* PaperTrader is alive for the key: it is left empty or cut short, so that
\* json.load raises on it.
CorruptFile ==
    /\ pc \in {"none", "done"}
    /\ target' \in {Empty, Partial}
    /\ target' # target
    /\ targetSynced' = TRUE
    /\ UNCHANGED <<pc, memVars, runVars, tmp, tmpSynced, callVars, dbVars, faults,
                   observed, auxVars>>

\* Something other than the driver rewrites the state file while no
\* PaperTrader is alive for the key: the file stays a JSON object, but cash or
\* position is dropped from it or replaced by a value that is no number.
DamageField ==
    /\ pc \in {"none", "done"}
    /\ target.kind = "json"
    /\ \E bad \in {Missing, Unparsable} :
         \/ target' = Json([target.data EXCEPT !.cash = bad])
         \/ target' = Json([target.data EXCEPT !.position = bad])
    /\ target' # target
    /\ targetSynced' = TRUE
    /\ UNCHANGED <<pc, memVars, runVars, tmp, tmpSynced, callVars, dbVars, faults,
                   observed, auxVars>>

\* The environment in which commits and file operations may fail and the
\* machine may go down: one run_strategy call.
Next ==
    \/ StartRun
    \/ OnSignal(BOOLEAN)
    \/ LoopTail(BOOLEAN)
    \/ Finish
    \/ WMkstemp
    \/ WMkstempFail
    \/ WWriteChunk
    \/ WFlush
    \/ WFsync
    \/ WReplace
    \/ WFail
    \/ Crash
    \/ Recover
    \/ Load

Spec == Init /\ [][Next]_vars

\* No failure: the process may be restarted between two rows.
NextResume ==
    \/ StartRun
    \/ Restart
    \/ OnSignal({TRUE})
    \/ LoopTail({TRUE})
    \/ Finish
    \/ WMkstemp
    \/ WWriteChunk
    \/ WFlush
    \/ WFsync
    \/ WReplace

SpecResume == Init /\ [][NextResume]_vars

\* No failure: the same run is requested again.
NextRerun ==
    \/ StartRun
    \/ Rerun
    \/ OnSignal({TRUE})
    \/ LoopTail({TRUE})
    \/ Finish
    \/ WMkstemp
    \/ WWriteChunk
    \/ WFlush
    \/ WFsync
    \/ WReplace

SpecRerun == Init /\ [][NextRerun]_vars

\* No failure: the same run may be requested again, and the state file may
\* be damaged between two requests.
NextCorrupt ==
    \/ StartRun
    \/ Rerun
    \/ CorruptFile
    \/ OnSignal({TRUE})
    \/ LoopTail({TRUE})
    \/ Finish
    \/ WMkstemp
    \/ WWriteChunk
    \/ WFlush
    \/ WFsync
    \/ WReplace

SpecCorrupt == Init /\ [][NextCorrupt]_vars

\* ------------------------------------------- concurrent requests, any key
\* /api/run_strategy is a plain def endpoint: requests are served side by
\* side, each with a PaperTrader of its own, and nothing serialises them. A
\* request goes through __init__ (load, create_initial_state_file),
\* run_strategy's choice of the strategy function and the rows; os.replace
\* makes every write of a state file one step.
MaxRequestBars == 1

\* The state file of a key, what a file name holds, and a file written.
FileOf(key) == state_filename(key[1], key[2])
StoredIn(files, f) == IF f \in DOMAIN files THEN files[f] ELSE Absent
Stored(f) == StoredIn(store, f)
WriteFile(f, content) ==
    [g \in DOMAIN store \cup {f} |-> IF g = f THEN content ELSE store[g]]

\* The JSON object written for a key.
KeyPayload(key, c, p, last_price, equity) ==
    Json([symbol |-> key[1], strategy |-> key[2], cash |-> c, position |-> p,
          last_price |-> last_price, equity |-> equity])

\* Request d writes content to the state file of its key; clobbered records
\* that the file held a state d had neither read nor written and that d
\* replaced it by another (cash, position).
DriverWrites(d, content, fields) ==
    LET f == FileOf(drv[d].key)
        old == Stored(f)
        lost == /\ old # drv[d].seen
                /\ old.kind = "json"
                /\ <<old.data.cash, old.data.position>>
                       # <<content.data.cash, content.data.position>>
    IN  /\ store' = WriteFile(f, content)
        /\ drv' = [drv EXCEPT ![d] =
                     [fields EXCEPT !.seen = content,
                                    !.clobbered = drv[d].clobbered \/ lost]]

\* A request arrives: PaperTrader(initial_cash=10000, strategy, symbol) sets
\* the fields to their defaults.
Request(d) ==
    /\ drv[d].pc = "idle"
    /\ \E key \in Keys :
         drv' = [drv EXCEPT ![d] =
                   [IdleDriver EXCEPT !.pc = "init", !.key = key,
                                      !.cash = Float(InitialCash),
                                      !.before = Stored(FileOf(key))]]
    /\ UNCHANGED <<coreVars, store, closes, signals>>

\* __init__: load_portfolio_state and the resume from it.
DriverLoad(d) ==
    /\ drv[d].pc = "init"
    /\ LET file == Stored(FileOf(drv[d].key))
           state == load_portfolio_state(file)
       IN  drv' = [drv EXCEPT ![d] =
                     IF state # <<>>
                     THEN [@ EXCEPT !.pc = "run", !.seen = file,
                                    !.cash = state[1].cash,
                                    !.position = state[1].position]
                     ELSE [@ EXCEPT !.pc = "create", !.seen = file]]
    /\ UNCHANGED <<coreVars, store, closes, signals>>

\* create_initial_state_file: the test path.exists().
DriverCreate(d) ==
    /\ drv[d].pc = "create"
    /\ drv' = [drv EXCEPT ![d].pc =
                 IF Stored(FileOf(drv[d].key)) # Absent THEN "run" ELSE "create_write"]
    /\ UNCHANGED <<coreVars, store, closes, signals>>

\* create_initial_state_file: the initial payload replaces the path.
DriverCreateWrite(d) ==
    /\ drv[d].pc = "create_write"
    /\ DriverWrites(d, KeyPayload(drv[d].key, Float(InitialCash), Zero, None,
                                  Float(InitialCash)),
                    [drv[d] EXCEPT !.pc = "run"])
    /\ UNCHANGED <<coreVars, closes, signals>>

\* run_strategy picks the strategy function, or raises ValueError("Unknown
\* strategy").
DriverRunStrategy(d) ==
    /\ drv[d].pc = "run"
    /\ drv' = [drv EXCEPT ![d].pc =
                 IF drv[d].key[2] \in KnownStrategies THEN "ready" ELSE "failed"]
    /\ UNCHANGED <<coreVars, store, closes, signals>>

\* on_signal for one row: transition, ledger rows, save_portfolio_state.
DriverOnSignal(d) ==
    /\ drv[d].pc = "ready"
    /\ drv[d].n < MaxRequestBars
    /\ \E price \in Prices, signal \in Signals :
         LET t == Transition(drv[d].cash, drv[d].position, Float(price), signal,
                             drv[d].n + 1)
         IN  DriverWrites(d, KeyPayload(drv[d].key, t.cash, t.position, Float(price),
                                        Equity(t.cash, t.position, Float(price))),
                          [drv[d] EXCEPT !.pc = "tail", !.cash = t.cash,
                                         !.position = t.position,
                                         !.last_price = Float(price),
                                         !.logged = @ + Len(t.rows) + 1])
    /\ UNCHANGED <<coreVars, closes, signals>>

\* The loop of run_strategy after on_signal: log_snapshot and
\* save_portfolio_state once more for the row.
DriverTail(d) ==
    /\ drv[d].pc = "tail"
    /\ DriverWrites(d, KeyPayload(drv[d].key, drv[d].cash, drv[d].position,
                                  drv[d].last_price,
                                  Equity(drv[d].cash, drv[d].position,
                                         drv[d].last_price)),
                    [drv[d] EXCEPT !.pc = "ready", !.n = @ + 1, !.logged = @ + 1])
    /\ UNCHANGED <<coreVars, closes, signals>>

\* run_strategy returns.
DriverFinish(d) ==
    /\ drv[d].pc = "ready"
    /\ drv[d].n >= 1
    /\ drv' = [drv EXCEPT ![d].pc = "done"]
    /\ UNCHANGED <<coreVars, store, closes, signals>>

NextService ==
    \/ \E d \in Drivers : Request(d)
    \/ \E d \in Drivers : DriverLoad(d)
    \/ \E d \in Drivers : DriverCreate(d)
    \/ \E d \in Drivers : DriverCreateWrite(d)
    \/ \E d \in Drivers : DriverRunStrategy(d)
    \/ \E d \in Drivers : DriverOnSignal(d)
    \/ \E d \in Drivers : DriverTail(d)
    \/ \E d \in Drivers : DriverFinish(d)

SpecService == Init /\ [][NextService]_vars

\* ---------------------------------------------------- strategy functions
\* The parameters the strategy functions are run with (the defaults in the
\* source are fast=10, slow=30, period=14), the closes a bar may have and the
\* longest series.
SmaFast == 2
SmaSlow == 3
RsiPeriod == 3
MaxSeries == 5
MaxCalls == 4
Overbought == 70
Oversold == 30
ClosePrices == {9, 10, 11, 12}

RSub(a, b) == RAdd(a, <<-b[1], b[2]>>)
RLess(a, b) == a[1] * b[2] < b[1] * a[2]
RLeq(a, b) == a[1] * b[2] <= b[1] * a[2]

RECURSIVE SumOf(_, _, _)
SumOf(x, lo, hi) == IF lo > hi THEN 0 ELSE x[hi] + SumOf(x, lo, hi - 1)

\* Series.rolling(window).mean(): NaN (None) until window values are there.
RollingMean(close, window) ==
    [k \in 1..Len(close) |->
        IF k < window THEN None ELSE Rat(SumOf(close, k - window + 1, k), window)]

\* Variant: the buy mask is sma_fast >= sma_slow, so a tie is a Buy.
sma_crossover_BuyOnTie(close, fast, slow) ==
    LET sma_fast == RollingMean(close, fast)
        sma_slow == RollingMean(close, slow)
    IN  [k \in 1..Len(close) |->
            IF sma_fast[k] = None \/ sma_slow[k] = None THEN 0
            ELSE IF RLess(sma_fast[k], sma_slow[k]) THEN -1
            ELSE 1]

\* sma_crossover: the signal column. A comparison with NaN is false.
sma_crossover(close, fast, slow) ==
    LET sma_fast == RollingMean(close, fast)
        sma_slow == RollingMean(close, slow)
    IN  [k \in 1..Len(close) |->
            IF sma_fast[k] = None \/ sma_slow[k] = None THEN 0
            ELSE IF RLess(sma_fast[k], sma_slow[k]) THEN -1
            ELSE IF RLess(sma_slow[k], sma_fast[k]) THEN 1
            ELSE 0]

\* Series.ewm(alpha=alpha, adjust=False).mean() at position k.
RECURSIVE Ewm(_, _, _)
Ewm(x, alpha, k) ==
    IF k = 1 THEN x[1]
    ELSE RAdd(RMul(RSub(Float(1), alpha), Ewm(x, alpha, k - 1)), RMul(alpha, x[k]))

\* ta.momentum.RSIIndicator(close, window).rsi(): gains and losses of
\* close.diff(1) (0.0 at the first bar), each smoothed by
\* ewm(alpha=1/window, min_periods=window, adjust=False), so NaN (None) for
\* the first window - 1 bars; 100 where the smoothed loss is 0, otherwise
\* 100 - 100 / (1 + gain / loss).
RsiOf(close, window) ==
    LET diff(k) == IF k = 1 THEN 0 ELSE close[k] - close[k - 1]
        up == [k \in 1..Len(close) |-> Float(IF diff(k) > 0 THEN diff(k) ELSE 0)]
        dn == [k \in 1..Len(close) |-> Float(IF diff(k) < 0 THEN -diff(k) ELSE 0)]
        alpha == Rat(1, window)
    IN  [k \in 1..Len(close) |->
            IF k < window THEN None
            ELSE LET emaup == Ewm(up, alpha, k)
                     emadn == Ewm(dn, alpha, k)
                 IN  IF RIsZero(emadn) THEN Float(100)
                     ELSE RSub(Float(100),
                               RDiv(Float(100), RAdd(Float(1), RDiv(emaup, emadn))))]

\* The signal column of rsi_strategy before its last block: 1 where
\* rsi <= oversold, -1 where rsi >= overbought (a comparison with NaN is
\* false).
RsiThresholds(rsi, overbought, oversold) ==
    [k \in 1..Len(rsi) |->
        IF rsi[k] = None THEN 0
        ELSE IF RLeq(Float(overbought), rsi[k]) THEN -1
        ELSE IF RLeq(rsi[k], Float(oversold)) THEN 1
        ELSE 0]

\* rsi_strategy: the thresholds, then, when the first non-zero signal is a
\* sell that is not on the first bar, signal 1 on the bar before it.
rsi_strategy(close, period, overbought, oversold) ==
    LET signal == RsiThresholds(RsiOf(close, period), overbought, oversold)
        nonzero == {k \in 1..Len(close) : signal[k] # 0}
    IN  IF nonzero = {} THEN signal
        ELSE LET first_idx == CHOOSE k \in nonzero : \A j \in nonzero : k <= j
             IN  IF signal[first_idx] = -1 /\ first_idx - 1 >= 1
                 THEN [signal EXCEPT ![first_idx - 1] = 1]
                 ELSE signal

\* run_strategy computes the signal column for the data: one more bar has
\* come in and each strategy function is run on the whole series.
Classify ==
    /\ Len(closes) < MaxSeries
    /\ \E c \in ClosePrices : closes' = Append(closes, c)
    /\ signals' = [sma |-> sma_crossover(closes', SmaFast, SmaSlow),
                   rsi |-> rsi_strategy(closes', RsiPeriod, Overbought, Oversold)]
    /\ UNCHANGED <<coreVars, drv, store>>

NextSignals == Classify

SpecSignals == Init /\ [][NextSignals]_vars

\* No failure: the same run may be requested again, and a field of the
\* state file may be damaged between two requests.
NextDamage ==
    \/ StartRun
    \/ Rerun
    \/ DamageField
    \/ OnSignal({TRUE})
    \/ LoopTail({TRUE})
    \/ Finish
    \/ WMkstemp
    \/ WWriteChunk
    \/ WFlush
    \/ WFsync
    \/ WReplace

SpecDamage == Init /\ [][NextDamage]_vars

\* --------------------------------------------- a ledger that stops answering
\* session.commit() blocks until the database answers: create_engine(DB_URL)
\* sets no timeout, and neither log_trade nor log_snapshot bounds the call. A
\* commit that gets no answer therefore never returns, and the driver stays
\* inside it.
\* on_signal is entered with the next row and the commit of log_trade (when
\* the row trades) or of log_snapshot gets no answer. Inside log_trade of a
\* sell self.position is not cleared yet.
StallInOnSignal ==
    /\ pc = "ready"
    /\ \E price \in Prices, signal \in Signals, inTrade \in BOOLEAN :
         LET t == Transition(cash, position, Float(price), signal, i + 1)
         IN  /\ runs = <<>>
             /\ i = Len(bars)
             /\ i < MaxBars
             /\ inTrade => t.rows # <<>>
             /\ bars' = Append(bars, <<price, signal>>)
             /\ cash' = t.cash
             /\ position' = IF inTrade /\ signal = -1 THEN position ELSE t.position
             /\ trades' = trades \o t.trades
             /\ dbTrades' = IF inTrade THEN dbTrades ELSE dbTrades \o t.rows
    /\ pc' = "stalled"
    /\ UNCHANGED <<i, curve, start, runs, restarts, halted, fileVars, callVars,
                   dbSnapshots, faults, observed, auxVars>>

\* The commit of the log_snapshot in the loop of run_strategy gets no answer.
StallInLoopTail ==
    /\ pc = "tail"
    /\ wpc = "idle"
    /\ pc' = "stalled"
    /\ UNCHANGED <<memVars, runVars, fileVars, callVars, dbVars, faults, observed,
                   auxVars>>

\* One run_strategy call, no failure other than a ledger that may stop
\* answering. The interpreter keeps running the driver as long as it has a
\* step to take.
NextStall ==
    \/ StartRun
    \/ OnSignal({TRUE})
    \/ LoopTail({TRUE})
    \/ Finish
    \/ WMkstemp
    \/ WWriteChunk
    \/ WFlush
    \/ WFsync
    \/ WReplace
    \/ StallInOnSignal
    \/ StallInLoopTail

SpecStall == Init /\ [][NextStall]_vars /\ WF_vars(NextStall)

\* ------------------------------------------------------- simple_backtest
\* One trades-list entry of simple_backtest.
BacktestTrade(type, index, price, shares) ==
    [type |-> type, index |-> index, price |-> price, shares |-> shares]

\* Variant: the buy branch does not set cash = 0.0.
BacktestStep_BuyKeepsCash(st, price, sig, index) ==
    LET traded ==
            IF sig = 1 /\ RIsZero(st.position)
            THEN [st EXCEPT !.position = RDiv(st.cash, price),
                            !.trades = Append(@, BacktestTrade("buy", index, price,
                                                               RDiv(st.cash, price)))]
            ELSE IF sig = -1 /\ RGtZero(st.position)
            THEN [st EXCEPT !.cash = RMul(st.position, price),
                            !.trades = Append(@, BacktestTrade("sell", index, price,
                                                               st.position)),
                            !.position = Zero]
            ELSE st
    IN  [traded EXCEPT !.equity_curve =
                          Append(@, Equity(traded.cash, traded.position, price))]

\* One pass of the loop of simple_backtest over (price, sig). cash / price
\* raises ZeroDivisionError at price 0, which ends the function.
BacktestStep(st, price, sig, index) ==
    IF st.raised THEN st
    ELSE IF sig = 1 /\ RIsZero(st.position) /\ RIsZero(price)
    THEN [st EXCEPT !.raised = TRUE]
    ELSE LET traded ==
                 IF sig = 1 /\ RIsZero(st.position)
                 THEN [st EXCEPT !.position = RDiv(st.cash, price),
                                 !.trades = Append(@, BacktestTrade("buy", index, price,
                                                                    RDiv(st.cash, price))),
                                 !.cash = Zero]
                 ELSE IF sig = -1 /\ RGtZero(st.position)
                 THEN [st EXCEPT !.cash = RMul(st.position, price),
                                 !.trades = Append(@, BacktestTrade("sell", index, price,
                                                                    st.position)),
                                 !.position = Zero]
                 ELSE st
         IN  [traded EXCEPT !.equity_curve =
                               Append(@, Equity(traded.cash, traded.position, price))]

\* simple_backtest over the first k rows (Close, signal).
RECURSIVE simple_backtest(_, _, _)
simple_backtest(rows, k, initial_capital) ==
    IF k = 0
    THEN [cash |-> Float(initial_capital), position |-> Zero, trades |-> <<>>,
          equity_curve |-> <<>>, raised |-> FALSE]
    ELSE BacktestStep(simple_backtest(rows, k - 1, initial_capital),
                      Float(rows[k][1]), rows[k][2], k)

\* ------------------------------------------------------------ properties
\* The row (price, signal) an on_signal step is entered with.
EnterOnSignal == pc = "ready" /\ pc' = "on_signal"
RowPrice == Float(bars'[i + 1][1])
RowSignal == bars'[i + 1][2]

\* C1. State-exclusivity: in every state reached by any sequence of
\* on_signal calls, ledger write failures included, the in-memory portfolio
\* has cash == 0 or position == 0.
C1_StateExclusivity == RIsZero(cash) \/ RIsZero(position)

\* A sell has completed whose log_trade commit failed: the sell is in
\* self.trades but not in the trades table, and the trader is flat with cash.
C1_Witness ==
    /\ Len(trades) = 2
    /\ trades[2].type = "sell"
    /\ Len(dbTrades) = 1
    /\ RGtZero(cash)
    /\ RIsZero(position)

\* C2. Conservation: every on_signal step executed at price p keeps
\* cash + position * p unchanged, whether or not it emits a trade.
C2_Conservation ==
    [][EnterOnSignal =>
         Equity(cash, position, RowPrice) = Equity(cash', position', RowPrice)]_vars

\* C3. State-changing transitions: from Flat a Buy at p > 0 gives
\* position = cash_before / p, cash = 0 and exactly one buy trade with
\* shares = cash_before / p; from Long a Sell at p gives
\* cash = position_before * p, position = 0 and exactly one sell trade with
\* shares = position_before.
C3_StateChanging ==
    [][EnterOnSignal =>
         /\ (RIsZero(position) /\ RowSignal = 1 /\ RGtZero(RowPrice)) =>
               /\ position' = RDiv(cash, RowPrice)
               /\ cash' = Zero
               /\ trades' = Append(trades, [type |-> "buy", date |-> i + 1,
                                            price |-> RowPrice,
                                            shares |-> RDiv(cash, RowPrice)])
         /\ (RGtZero(position) /\ RowSignal = -1) =>
               /\ cash' = RMul(position, RowPrice)
               /\ position' = Zero
               /\ trades' = Append(trades, [type |-> "sell", date |-> i + 1,
                                            price |-> RowPrice,
                                            shares |-> position])]_vars

\* A buy at one positive price followed by a sell at another one.
C3_Witness ==
    /\ Len(trades) = 2
    /\ trades[1].type = "buy"
    /\ trades[2].type = "sell"
    /\ RGtZero(trades[1].price)
    /\ RGtZero(trades[2].price)
    /\ trades[1].price # trades[2].price
    /\ cash = RMul(trades[1].shares, trades[2].price)

\* C4. No-op transitions: a Hold, a Buy while Long and a Sell while Flat leave
\* cash and position unchanged and append no trade; and a row delivered again
\* right after it has been applied changes nothing and emits no trade.
C4_NoOp ==
    [][EnterOnSignal =>
         /\ (\/ RowSignal = 0
             \/ RowSignal = 1 /\ RGtZero(position)
             \/ RowSignal = -1 /\ RIsZero(position)) =>
               UNCHANGED <<cash, position, trades>>
         /\ (i >= 1 /\ bars[i] = bars'[i + 1]) =>
               UNCHANGED <<cash, position, trades>>]_vars

\* C5. Invalid price: a Buy in Flat or a Sell in Long delivered with
\* price <= 0 emits no trade and leaves cash and position as they were.
C5_InvalidPrice ==
    [][(/\ EnterOnSignal
        /\ ~RGtZero(RowPrice)
        /\ \/ RowSignal = 1 /\ RIsZero(position)
           \/ RowSignal = -1 /\ RGtZero(position)) =>
         UNCHANGED <<cash, position, trades>>]_vars
\* C6. Idempotent resume: processing the first k rows with one PaperTrader,
\* then the remaining rows with a new PaperTrader of the same key that resumes
\* from the state file, ends in the same (cash, position) as processing every
\* row with a single PaperTrader.
C6_IdempotentResume ==
    pc = "done" => <<cash, position>> = RunWhole(start, bars, Len(bars))

\* The run ended after a restart made while Long: the second trader's only
\* trade is the sell of the position the first trader bought.
C6_Witness ==
    /\ pc = "done"
    /\ restarts = 1
    /\ Len(trades) = 1
    /\ trades[1].type = "sell"
    /\ trades[1].date = 2
    /\ RGtZero(cash)

\* C7. Determinism: two runs of the same strategy over the same rows with the
\* same initial cash, each a new PaperTrader of the key followed by
\* run_strategy, give identical trade lists and identical equity curves.
C7_Determinism == Len(runs) >= 2 => runs[1] = runs[2]

\* C8. Atomic save: at every step of a write call, with a load of the key
\* interleaved anywhere and a crash at any step, the state file is absent or
\* holds a complete state, the one it held before the call or the new one;
\* a reader never finds a partly written one.
C8_AtomicSave ==
    /\ target \in {wold, wpayload}
    /\ target.kind \in {"absent", "json"}
    /\ observed \in {"absent", "json"}

\* The machine went down while the temp file was partly written; the state
\* file still holds the previous complete state, which a reader has loaded.
C8_Witness ==
    /\ pc = "crashed"
    /\ tmp = Partial
    /\ target.kind = "json"
    /\ target = wold
    /\ target # wpayload
    /\ observed = "json"

\* The last write call was a save_portfolio_state call (its payload carries
\* the price of a row), not the write of create_initial_state_file.
SaveCall == wpayload.kind = "json" /\ wpayload.data.last_price # None

\* C9 as stated. Save failure handling: after a save_portfolio_state call that
\* failed at any step (it returns False), no temp file of that call remains
\* and the state file holds what it held before the call.
C9_SaveFailure ==
    (ret = "False" /\ SaveCall) => (tmp = Absent /\ target = wold)

\* C9 amended. After a save_portfolio_state call that failed at any step (it
\* returns False), the state file holds what it held before the call, and the
\* temp file of the call is gone unless os.remove itself raised in the cleanup.
C9_SaveFailureAmended ==
    (ret = "False" /\ SaveCall) => /\ target = wold
                                   /\ tmp # Absent => removeErr

\* A save of a new state failed after the temp file was created; the temp
\* file was removed and the state file still holds the older state.
C9_Witness ==
    /\ ret = "False"
    /\ SaveCall
    /\ tmp = Absent
    /\ ~removeErr
    /\ wold.kind = "json"
    /\ target = wold
    /\ target.data.position # wpayload.data.position

\* C10. Persistence failure is non-fatal: when save_portfolio_state fails
\* inside on_signal, on_signal returns to the loop of run_strategy with the
\* in-memory cash and position at the post-transition values it passed to
\* save_portfolio_state, and at every later row boundary the in-memory state
\* is the one the rows give from the state the run started with.
C10_PersistenceNonFatal ==
    /\ (pc = "tail" /\ wpc = "idle" /\ ret = "False") =>
           /\ cash = wpayload.data.cash
           /\ position = wpayload.data.position
           /\ curve[i + 1] = Equity(cash, position, Float(bars[i + 1][1]))
           /\ <<cash, position>> = RunWhole(start, bars, i + 1)
    /\ pc \in {"ready", "done"} => <<cash, position>> = RunWhole(start, bars, i)

\* The save after a buy failed: the trader is Long in memory while the state
\* file still holds the initial Flat state, and on_signal has returned.
C10_Witness ==
    /\ pc = "tail"
    /\ wpc = "idle"
    /\ ret = "False"
    /\ RGtZero(position)
    /\ target = InitialPayload

\* C11. Ledger failure isolation: when the commit of log_trade or of
\* log_snapshot fails during on_signal, the in-memory transition is completed
\* exactly as if the write had succeeded (same cash, position and trades
\* entry), on_signal does not abort, and save_portfolio_state is still
\* called with the post-transition state.
C11_LedgerFailureIsolation ==
    [][(EnterOnSignal /\ faults' > faults) =>
           LET t == Transition(cash, position, RowPrice, RowSignal, i + 1)
           IN  /\ cash' = t.cash
               /\ position' = t.position
               /\ trades' = trades \o t.trades
               /\ curve' = Append(curve, Equity(t.cash, t.position, RowPrice))
               /\ wpc' = "mkstemp"
               /\ wpayload' = Payload(t.cash, t.position, RowPrice,
                                      Equity(t.cash, t.position, RowPrice))]_vars

\* The commit of log_trade failed for a buy: the buy is in self.trades and
\* not in the trades table, the trader is Long, and save_portfolio_state has
\* been entered with the Long state.
C11_Witness ==
    /\ pc = "on_signal"
    /\ wpc = "mkstemp"
    /\ faults = 1
    /\ Len(trades) = 1
    /\ dbTrades = <<>>
    /\ RGtZero(position)
    /\ wpayload.kind = "json"
    /\ wpayload.data.position = position

\* C12. Exactly one EquitySnapshot per bar processed: after run_strategy over
\* n rows with a ledger that never fails, the equity_snapshots table holds
\* exactly n rows for the key, one per bar timestamp.
C12_OneSnapshotPerBar ==
    (pc = "done" /\ Len(runs) = 1) =>
        /\ Len(dbSnapshots) = Len(bars)
        /\ \A date \in 1..Len(bars) :
             Cardinality({k \in 1..Len(dbSnapshots) :
                            dbSnapshots[k].snapshot_time = date}) = 1

\* A PaperTrader is constructed for the key by a /api/run_strategy request.
Construct == pc \in {"none", "done"} /\ pc' \notin {"none", "done"}

\* C13. Corrupt state fallback: constructing a PaperTrader for a key whose
\* state file cannot be parsed as JSON does not raise, and the in-memory state
\* it ends with is the fresh Flat state (cash = initial cash, position = 0).
C13_CorruptStateFallback ==
    [][(Construct /\ target.kind \in {"empty", "partial"}) =>
           /\ pc' = "ready"
           /\ cash' = Float(InitialCash)
           /\ position' = Zero
           /\ trades' = <<>>]_vars

\* A first run bought and left a Long state in the state file; the file was
\* then cut short, and the PaperTrader of the next request has been
\* constructed on it: Flat with the initial cash.
C13_Witness ==
    /\ pc = "ready"
    /\ i = 0
    /\ Len(runs) = 1
    /\ runs[1].trades # <<>>
    /\ target = Partial
    /\ cash = Float(InitialCash)
    /\ RIsZero(position)

\* C14. Create-if-missing: whenever load_portfolio_state returns None for the
\* key (no file, or a file treated as absent), construction persists the
\* fresh Flat state at once, so that right after construction the state file
\* holds a loadable state equal to the in-memory (cash, position); and
\* constructing a PaperTrader again for a key already initialized starts no
\* write and leaves the state file as it is.
C14_CreateIfMissing ==
    /\ []((pc = "ready" /\ i = 0) =>
             /\ load_portfolio_state(target) # <<>>
             /\ target.data.cash = cash
             /\ target.data.position = position)
    /\ [][(Construct /\ load_portfolio_state(target) # <<>>) =>
             /\ target' = target
             /\ wpc' = "idle"]_vars

\* C16. Per-bar ordering: for every bar the driver applies the transition,
\* then persists the state, then records the snapshot and the trade in the
\* ledger; no ledger row of a bar is written before the state of that bar has
\* been persisted.
C16_PerBarOrdering ==
    (pc = "on_signal" /\ wpc # "idle") =>
        /\ \A k \in 1..Len(dbSnapshots) : dbSnapshots[k].snapshot_time # i + 1
        /\ \A k \in 1..Len(dbTrades) : dbTrades[k].trade_time # i + 1

\* C15. Unknown strategy: a simulation requested with an unsupported strategy
\* id fails with an error, and at the moment it fails nothing has been
\* touched: no state file of that key has been created or modified, no ledger
\* row has been written and no bar has been processed.
C15_UnknownStrategy ==
    \A d \in Drivers :
        /\ (drv[d].pc \in {"ready", "tail", "done"}) => drv[d].key[2] \in KnownStrategies
        /\ drv[d].pc = "failed" =>
               /\ drv[d].key[2] \notin KnownStrategies
               /\ Stored(FileOf(drv[d].key)) = drv[d].before
               /\ drv[d].logged = 0
               /\ drv[d].n = 0

\* A PaperTrader exists for the request and run_strategy has not returned.
Active(d) == drv[d].pc \notin {"idle", "done", "failed"}

\* C17. Single writer per key: at most one PaperTrader is active for a
\* (symbol, strategy) key at a time, so that under concurrent
\* /api/run_strategy requests for one key no state saved by one of them is
\* overwritten by a state another computed from an older load.
C17_SingleWriter ==
    /\ \A d, e \in Drivers :
         (d # e /\ Active(d) /\ Active(e)) => drv[d].key # drv[e].key
    /\ \A d \in Drivers : ~drv[d].clobbered

\* Request d takes a step.
Steps(d) == drv'[d] # drv[d]

\* C18. Key independence: for two distinct keys, every operation on one key
\* leaves the persisted state of the other unchanged; in particular distinct
\* keys map to distinct state file names.
C18_KeyIndependence ==
    /\ [][\A d \in Drivers : \A key \in Keys :
            (Steps(d) /\ drv'[d].key # key) =>
                StoredIn(store', FileOf(key)) = Stored(FileOf(key))]_vars
    /\ [](\A d, e \in Drivers :
            (drv[d].pc # "idle" /\ drv[e].pc # "idle" /\ drv[d].key # drv[e].key) =>
                FileOf(drv[d].key) # FileOf(drv[e].key))

\* C19. No lookahead: for sma_crossover and for rsi_strategy and every bar,
\* the signal of the bar computed on the full series equals the signal of
\* that bar computed on the series cut after it.
C19_NoLookahead ==
    \A k \in 1..Len(closes) :
        LET upto == SubSeq(closes, 1, k)
        IN  /\ signals.sma[k] = sma_crossover(upto, SmaFast, SmaSlow)[k]
            /\ signals.rsi[k] = rsi_strategy(upto, RsiPeriod, Overbought, Oversold)[k]

\* C20. RSI rule: on every bar the signal of rsi_strategy is Buy exactly when
\* RSI <= 30, Sell exactly when RSI >= 70 and Hold otherwise; a series whose
\* RSI values all lie strictly between 30 and 70 gives Hold on every bar, so
\* a trader fed with it never trades.
C20_RsiRule ==
    LET rsi == RsiOf(closes, RsiPeriod)
        defined == {k \in 1..Len(closes) : rsi[k] # None}
        rows == [k \in 1..Len(closes) |-> <<closes[k], signals.rsi[k]>>]
        flat == <<Float(InitialCash), Zero>>
    IN  /\ \A k \in 1..Len(closes) :
             /\ signals.rsi[k] = 1 <=> (k \in defined /\ RLeq(rsi[k], Float(Oversold)))
             /\ signals.rsi[k] = -1 <=> (k \in defined /\ RLeq(Float(Overbought), rsi[k]))
        /\ (\A k \in defined : /\ RLess(Float(Oversold), rsi[k])
                               /\ RLess(rsi[k], Float(Overbought))) =>
               /\ \A k \in 1..Len(closes) : signals.rsi[k] = 0
               /\ RunWhole(flat, rows, Len(closes)) = flat

\* The sum of the last window closes at bar k, and whether bar k has them.
WindowSum(k, window) == SumOf(closes, k - window + 1, k)
HasWindow(k, window) == k >= window

\* The rows (close, signal) a signal column gives for closes.
RowsOf(column) == [k \in 1..Len(closes) |-> <<closes[k], column[k]>>]

\* C21. SMA crossover rule: on every bar the signal of sma_crossover is Buy
\* exactly when the mean of the last fast closes is greater than the mean of
\* the last slow closes, Sell exactly when it is smaller, and Hold when they
\* are equal or when fewer than slow (or fast) bars are there. With closes
\* [10, 12, 9, 11], fast=2, slow=3 and initial cash 1000 the first two bars
\* are Hold and the first Buy, at the first bar where fast > slow, buys
\* 1000 / price shares.
C21_SmaRule ==
    /\ \A k \in 1..Len(closes) :
         LET both == HasWindow(k, SmaFast) /\ HasWindow(k, SmaSlow)
             fastTimesSlow == WindowSum(k, SmaFast) * SmaSlow
             slowTimesFast == WindowSum(k, SmaSlow) * SmaFast
         IN  /\ signals.sma[k] = 1 <=> (both /\ fastTimesSlow > slowTimesFast)
             /\ signals.sma[k] = -1 <=> (both /\ fastTimesSlow < slowTimesFast)
             /\ signals.sma[k] = 0 <=> (~both \/ fastTimesSlow = slowTimesFast)
    /\ closes = <<10, 12, 9, 11>> =>
         LET column == sma_crossover(closes, 2, 3)
             flat == <<Float(1000), Zero>>
         IN  /\ column[1] = 0
             /\ column[2] = 0
             /\ column[3] = 1
             /\ 3 * (closes[2] + closes[3]) > 2 * (closes[1] + closes[2] + closes[3])
             /\ RunWhole(flat, RowsOf(column), 2) = flat
             /\ RunWhole(flat, RowsOf(column), 3) = <<Zero, Rat(1000, closes[3])>>

\* Scenario A has been classified: Hold, Hold, Buy at close 9, then Sell.
C21_Witness ==
    /\ closes = <<10, 12, 9, 11>>
    /\ signals.sma = <<0, 0, 1, -1>>

\* C22. Warm-up policy: for both strategies, every bar whose indicator value
\* is undefined (an SMA with too little history, the RSI during its first
\* period bars) is classified Hold, never Buy or Sell, on every series.
C22_WarmUp ==
    LET sma_fast == RollingMean(closes, SmaFast)
        sma_slow == RollingMean(closes, SmaSlow)
        rsi == RsiOf(closes, RsiPeriod)
    IN  \A k \in 1..Len(closes) :
            /\ (sma_fast[k] = None \/ sma_slow[k] = None) => signals.sma[k] = 0
            /\ (rsi[k] = None \/ k <= RsiPeriod) => signals.rsi[k] = 0

\* The loop of run_strategy goes on after on_signal returned.
EnterLoopTail == pc = "tail" /\ wpc = "idle" /\ wpc' = "mkstemp"

\* C23. Ledger record independence: if recording one trade or snapshot
\* fails, every later trade and snapshot whose own write succeeds is still
\* recorded: in every step the records left out are exactly the writes that
\* failed in that step, whatever failed before.
C23_LedgerIndependence ==
    [][/\ EnterOnSignal =>
            LET t == Transition(cash, position, RowPrice, RowSignal, i + 1)
                row == SnapshotRow(i + 1, RowPrice, t.cash, t.position)
                tradeLeftOut == t.rows # <<>> /\ dbTrades' = dbTrades
                snapLeftOut == dbSnapshots' = dbSnapshots
            IN  /\ tradeLeftOut \/ dbTrades' = dbTrades \o t.rows
                /\ snapLeftOut \/ dbSnapshots' = Append(dbSnapshots, row)
                /\ faults' - faults = (IF tradeLeftOut THEN 1 ELSE 0)
                                        + (IF snapLeftOut THEN 1 ELSE 0)
       /\ EnterLoopTail =>
            LET row == SnapshotRow(i + 1, Float(bars[i + 1][1]), cash, position)
                snapLeftOut == dbSnapshots' = dbSnapshots
            IN  /\ dbTrades' = dbTrades
                /\ snapLeftOut \/ dbSnapshots' = Append(dbSnapshots, row)
                /\ faults' - faults = (IF snapLeftOut THEN 1 ELSE 0)]_vars

\* The commit of the buy of the first bar failed, and the snapshots of that
\* bar and of the next bar are in the table.
C23_Witness ==
    /\ Len(trades) = 1
    /\ trades[1].date = 1
    /\ dbTrades = <<>>
    /\ \E k \in 1..Len(dbSnapshots) : dbSnapshots[k].snapshot_time = 1
    /\ \E k \in 1..Len(dbSnapshots) : dbSnapshots[k].snapshot_time = 2

\* C24. The ledger cannot stall the simulation: if the ledger stops
\* answering (a write never returns on its own), every on_signal call still
\* completes in the end, the stalled write counting as an ordinary ledger
\* failure, and run_strategy finishes all bars.
C24_LedgerCannotStall == <>(pc = "done")

\* C25. Every trade the engine emits (appended to PaperTrader.trades and
\* passed to log_trade) has price > 0 and shares > 0, for any signal and
\* price sequence and any starting state, Flat with cash == 0 included.
C25_TradePositive ==
    /\ \A k \in 1..Len(trades) : RGtZero(trades[k].price) /\ RGtZero(trades[k].shares)
    /\ \A k \in 1..Len(dbTrades) : RGtZero(dbTrades[k].price) /\ RGtZero(dbTrades[k].shares)

\* C26. Every trade row handed to the ledger carries cash_after and
\* position_after equal to the cash and position of the portfolio after the
\* transition has completed: a buy row has cash_after == 0 and
\* position_after == shares, a sell row has cash_after == shares * price and
\* position_after == 0.
C26_TradeRowAfter ==
    \A k \in 1..Len(dbTrades) :
        LET row == dbTrades[k]
        IN  /\ row.trade_type = "buy" =>
                 /\ RIsZero(row.cash_after)
                 /\ row.position_after = row.shares
            /\ row.trade_type = "sell" =>
                 /\ row.cash_after = RMul(row.shares, row.price)
                 /\ RIsZero(row.position_after)

\* A trade without its date: (type, price, shares).
TradeFacts(list) == [k \in 1..Len(list) |-> <<list[k].type, list[k].price, list[k].shares>>]

\* C27. Batch/live agreement: for every sequence of signals in {1, -1, 0}
\* with positive prices, from the same initial cash and zero position,
\* simple_backtest and a fresh PaperTrader fed the same rows through
\* on_signal give the same trades (type, price, shares), the same equity on
\* every bar and the same final cash and position.
C27_BatchLiveAgreement ==
    (/\ pc \in {"ready", "done"}
     /\ restarts = 0
     /\ \A k \in 1..i : bars[k][1] > 0) =>
        LET batch == simple_backtest(bars, i, InitialCash)
        IN  /\ ~batch.raised
            /\ TradeFacts(batch.trades) = TradeFacts(trades)
            /\ batch.equity_curve = curve
            /\ batch.cash = cash
            /\ batch.position = position

\* A fresh PaperTrader has bought on the first row and sold on the second,
\* both at positive prices, and run_strategy has returned.
C27_Witness ==
    /\ pc = "done"
    /\ restarts = 0
    /\ Len(bars) = 2
    /\ bars[1][1] > 0
    /\ bars[2][1] > 0
    /\ Len(trades) = 2

\* C28. Resume is all-or-nothing: after the construction of a PaperTrader
\* with resume enabled the in-memory pair (cash, position) is either exactly
\* the pair stored in the state file or exactly (initial_cash, 0), never one
\* field from the file and the other from the defaults, also when only one
\* of the stored fields is missing or unparsable.
C28_ResumeAllOrNothing ==
    [][Construct =>
           \/ <<cash', position'>> = <<Float(InitialCash), Zero>>
           \/ /\ target.kind = "json"
              /\ <<cash', position'>> = <<target.data.cash, target.data.position>>]_vars

\* The pair a PaperTrader constructed with resume enabled takes from a state
\* file holding f.
ResumedPair(f) ==
    LET state == load_portfolio_state(f)
    IN  IF state # <<>> THEN ResumedFields(state[1]) ELSE <<Float(InitialCash), Zero>>

\* The in-memory (cash, position) of the run's driver once the transitions of
\* the first 0 .. n rows were applied, and the initial state.
EndsOfBars(n) ==
    {RunWhole(start, bars, k) : k \in 0..n} \cup {<<Float(InitialCash), Zero>>}

\* The rows on which the crashing driver has returned from on_signal.
Processed == IF pc = "tail" THEN i + 1 ELSE i

GoesDown == pc # "crashed" /\ pc' = "crashed"
ComesBack == pc = "crashed" /\ pc' # "crashed"

RECURSIVE TradesWhole(_, _, _)
TradesWhole(st, rows, k) ==
    IF k = 0 THEN <<>>
    ELSE LET prev == RunWhole(st, rows, k - 1)
         IN  TradesWhole(st, rows, k - 1)
                 \o Transition(prev[1], prev[2], Float(rows[k][1]), rows[k][2], k).trades

\* The trades alternate buy, sell, buy, ... from a buy on, and the engine
\* holding p is Long exactly when there is one more buy than sells.
Alternates(tr, p) ==
    LET buys == Cardinality({k \in 1..Len(tr) : tr[k].type = "buy"})
        sells == Cardinality({k \in 1..Len(tr) : tr[k].type = "sell"})
    IN  /\ \A k \in 1..Len(tr) : tr[k].type = (IF k % 2 = 1 THEN "buy" ELSE "sell")
        /\ RGtZero(p) <=> (buys = sells + 1)

\* Calls of on_signal with a positive price: up to MaxCalls of them.
PositiveCalls ==
    UNION {[1..n -> {p \in Prices : p > 0} \X Signals] : n \in 0..MaxCalls}

\* C30. Trade alternation: for a PaperTrader starting Flat with cash > 0 and
\* any sequence of signals with positive prices, the emitted trades strictly
\* alternate buy, sell, buy, ... starting with a buy, and after every call
\* the engine is Long exactly when one more buy than sells was emitted.
C30_TradeAlternation ==
    /\ pc = "none" =>
         \A rows \in PositiveCalls : \A k \in 0..Len(rows) :
            Alternates(TradesWhole(<<Float(InitialCash), Zero>>, rows, k),
                       RunWhole(<<Float(InitialCash), Zero>>, rows, k)[2])
    /\ (/\ restarts = 0
        /\ runs = <<>>
        /\ pc \in {"ready", "on_signal", "tail", "done"}
        /\ \A k \in 1..Len(bars) : bars[k][1] > 0)
       => Alternates(trades, position)

\* The run's PaperTrader bought and sold at positive prices and is Flat.
C30_Witness ==
    /\ restarts = 0
    /\ pc = "ready"
    /\ \A k \in 1..Len(bars) : bars[k][1] > 0
    /\ Len(trades) = 2
    /\ trades[2].type = "sell"
    /\ RIsZero(position)

====
